---------------------------- MODULE Spec2Model ----------------------------
(***************************************************************************)
(* A model of app/main.py of zib2-podcast: the sync cycle download_all()   *)
(* (listing fetch, per-candidate probe, gates, download) and the feed      *)
(* handler podcast().                                                      *)
(*                                                                         *)
(* Text is a sequence of one-character strings, so that endswith, slicing, *)
(* split, replace and the lexicographic order of Python strings are        *)
(* computed character by character.                                        *)
(***************************************************************************)
EXTENDS Integers, Sequences, FiniteSets, TLC

VARIABLES
    lib,          \* the entries of app/static: a set of [name, size]
    pc,           \* where download_all is: "idle", "loop" or "download"
    urls,         \* the dict built by get_episode_urls, as the sequence of its keys
    idx,          \* position of the for loop of line 97 in urls
    request,      \* the detail page held by the loop body (line 100)
    outcome,      \* how the last download_all ended: it returned, or what raised
    ZIB2_FEED,    \* channel.items of the process-wide Rss object
    response,     \* the last answer of podcast()
    alarm,        \* what the staleness block of the last podcast() logged
    date_today,   \* date.today() as the staleness block last read it (line 193)
    request_url,  \* request.url.components of the last feed request
    fetchFailed,  \* history: the listing fetch of the current or last cycle raised
    pending,      \* history: ids whose last fetched detail page was skipped as incomplete
    page,         \* history: the listing answer of the current or last cycle
    resp,         \* history: the upstream answers of the current or last cycle, per id
    replay,       \* history: upstream answers this cycle as it answered the previous one
    libAtStart,   \* history: lib when the current or last cycle started
    probed,       \* history: the last detail page fetched, and for which id
    failed,       \* history: ids whose last download raised
    undated,      \* history: ids whose last fetched detail page was skipped for its missing date
    stalled       \* the server never answers the requests.get that download_all is in

vars == <<lib, pc, urls, idx, request, outcome, ZIB2_FEED, response, alarm,
          date_today, request_url, fetchFailed, pending, page, resp, replay, libAtStart,
          probed, failed, undated, stalled>>

\* download_all and what is recorded about it in every specification
syncVars == <<pc, urls, idx, request, outcome, fetchFailed, pending>>

\* the record of upstream answers kept by the specification of repeated cycles
replayVars == <<page, resp, replay, libAtStart>>

\* what the specification of retries notes of each candidate
noteVars == <<probed, failed, undated>>

logVars == <<replayVars, noteVars, stalled>>

feedVars == <<ZIB2_FEED, response, alarm, date_today, request_url>>

-----------------------------------------------------------------------------
(* Bounds and input universes *)

\* the longest listing page, in matched episode URLs
MaxListing == 2

NEWEST_EPISODE_MAX_AGE == 3

\* code points of the characters that occur in the modelled texts
Ord ==
    (" " :> 32) @@ ("-" :> 45) @@ ("." :> 46) @@
    ("0" :> 48) @@ ("1" :> 49) @@ ("2" :> 50) @@ ("3" :> 51) @@ ("4" :> 52) @@
    ("5" :> 53) @@ ("6" :> 54) @@ ("7" :> 55) @@ ("8" :> 56) @@ ("9" :> 57) @@
    ("B" :> 66) @@ ("I" :> 73) @@ ("Z" :> 90) @@ ("_" :> 95) @@
    ("a" :> 97) @@ ("b" :> 98) @@ ("e" :> 101) @@ ("g" :> 103) @@
    ("m" :> 109) @@ ("r" :> 114) @@ ("t" :> 116) @@ ("x" :> 120)

Digits == {"0", "1", "2", "3", "4", "5", "6", "7", "8", "9"}

\* episode ids as the listing regex captures them: (?P<id>\d+)
Ids == { <<"9">>, <<"1", "0">> }

D_30_12_2023 == <<"3", "0", ".", "1", "2", ".", "2", "0", "2", "3">>
D_01_01_2024 == <<"0", "1", ".", "0", "1", ".", "2", "0", "2", "4">>
D_02_01_2024 == <<"0", "2", ".", "0", "1", ".", "2", "0", "2", "4">>

\* dates as the title regex captures them: (?P<date>[\d\.]+)
ProbeDates == { D_01_01_2024, D_02_01_2024 }

\* dates of the files a library may hold when the process starts
LibraryDates == { D_30_12_2023, D_01_01_2024, D_02_01_2024 }

\* datetime.date.today() at a feed request, as [y, m, d]
Todays == { [y |-> 2024, m |-> 1, d |-> 2],
            [y |-> 2024, m |-> 1, d |-> 4],
            [y |-> 2024, m |-> 1, d |-> 5] }

\* request.url.components of a feed request
Requests == { [scheme |-> "http", netloc |-> "localhost:8000"],
              [scheme |-> "https", netloc |-> "zib2.example"] }

\* bytes of the audio file the acquirer writes for an episode
MediaSize(id) == 1000 + Len(id)

-----------------------------------------------------------------------------
(* Python str operations *)

M4A == <<".", "m", "4", "a">>

\* s.endswith(suffix)
EndsWith(s, suffix) ==
    /\ Len(s) >= Len(suffix)
    /\ SubSeq(s, Len(s) - Len(suffix) + 1, Len(s)) = suffix

\* s.startswith(prefix)
StartsWith(s, prefix) ==
    /\ Len(s) >= Len(prefix)
    /\ SubSeq(s, 1, Len(prefix)) = prefix

\* s[:-4]
DropLast4(s) == SubSeq(s, 1, Len(s) - 4)

\* s.split(sep) for a one-character sep
RECURSIVE Split(_, _)
Split(s, sep) ==
    IF \A i \in 1..Len(s) : s[i] # sep
    THEN <<s>>
    ELSE LET i == CHOOSE k \in 1..Len(s) :
                     s[k] = sep /\ \A j \in 1..(k - 1) : s[j] # sep
         IN  <<SubSeq(s, 1, i - 1)>> \o Split(SubSeq(s, i + 1, Len(s)), sep)

\* s.replace(a, b) for one-character a and b
ReplaceChar(s, a, b) == [i \in 1..Len(s) |-> IF s[i] = a THEN b ELSE s[i]]

\* s.replace(sub, "") for a non-empty sub
RECURSIVE RemoveAll(_, _)
RemoveAll(s, sub) ==
    IF Len(s) < Len(sub) THEN s
    ELSE IF StartsWith(s, sub)
         THEN RemoveAll(SubSeq(s, Len(sub) + 1, Len(s)), sub)
         ELSE <<s[1]>> \o RemoveAll(Tail(s), sub)

\* a < b for Python strings from position i on, the earlier characters being
\* equal: by code point, a proper prefix is smaller
RECURSIVE StrLessFrom(_, _, _)
StrLessFrom(a, b, i) ==
    IF i > Len(b) THEN FALSE
    ELSE IF i > Len(a) THEN TRUE
    ELSE IF a[i] = b[i] THEN StrLessFrom(a, b, i + 1)
    ELSE Ord[a[i]] < Ord[b[i]]

\* a < b for Python strings
StrLess(a, b) == StrLessFrom(a, b, 1)

-----------------------------------------------------------------------------
(* datetime *)

\* int(s) for a string of digits
RECURSIVE Number(_)
Number(s) ==
    IF s = <<>> THEN 0
    ELSE 10 * Number(SubSeq(s, 1, Len(s) - 1)) + (Ord[s[Len(s)]] - 48)

IsDigits(s) == \A i \in 1..Len(s) : s[i] \in Digits

IsLeap(y) == y % 4 = 0 /\ (y % 100 # 0 \/ y % 400 = 0)

DaysInMonth(y, m) ==
    IF m = 2 THEN (IF IsLeap(y) THEN 29 ELSE 28)
    ELSE IF m \in {4, 6, 9, 11} THEN 30 ELSE 31

RECURSIVE DaysBeforeMonth(_, _)
DaysBeforeMonth(y, m) ==
    IF m = 1 THEN 0 ELSE DaysBeforeMonth(y, m - 1) + DaysInMonth(y, m - 1)

\* date.toordinal(): what the subtraction of two dates is computed from
ToOrdinal(t) ==
    LET p == t.y - 1
    IN  365 * p + (p \div 4) - (p \div 100) + (p \div 400)
        + DaysBeforeMonth(t.y, t.m) + t.d

NoDate == [ok |-> FALSE, y |-> 0, m |-> 0, d |-> 0]

\* datetime.datetime.strptime(s, "%d.%m.%Y").date(); ok = FALSE where it
\* raises ValueError.  %d and %m take one or two digits, %Y exactly four.
\* (%d also takes a space and a digit; no modelled file name holds a space.)
StrpTime(s) ==
    LET f == Split(s, ".")
    IN  IF Len(f) # 3 THEN NoDate
        ELSE IF \E i \in 1..3 : ~IsDigits(f[i]) THEN NoDate
        ELSE IF Len(f[1]) \notin {1, 2} \/ Len(f[2]) \notin {1, 2} \/ Len(f[3]) # 4
             THEN NoDate
        ELSE LET dd == Number(f[1])
                 mm == Number(f[2])
                 yy == Number(f[3])
             IN  IF yy < 1 \/ mm \notin 1..12 \/ dd < 1 THEN NoDate
                 ELSE IF dd > DaysInMonth(yy, mm) THEN NoDate
                 ELSE [ok |-> TRUE, y |-> yy, m |-> mm, d |-> dd]

-----------------------------------------------------------------------------
(* podcast(): GET / and HEAD / *)

\* a list as a tuple
AsTuple(f) == SubSeq(f, 1, Len(f))

\* sorted(entries, key=lambda x: x.name) of the entries os.scandir yields:
\* an entry stands after the entries of smaller name.  (The comprehension
\* over {entries} takes the value of the argument once.)
Sorted(entries) ==
    CHOOSE r \in
        { AsTuple([i \in 1..Cardinality(S) |->
              CHOOSE x \in S : Cardinality({o \in S : StrLess(o.name, x.name)}) = i - 1])
          : S \in {entries} } : TRUE

\* whether entry a goes before entry b in dirlist.sort(reverse=True, key=name)
SortsBefore(a, b) == StrLess(b.name, a.name)

\* list.sort(reverse=True, key=lambda x: x.name): q[k] stands after the
\* elements that go before it and, the sort being stable, after its equals
\* to its left
SortReverse(list) ==
    CHOOSE r \in
        { AsTuple([i \in 1..Len(q) |->
              q[CHOOSE k \in 1..Len(q) :
                  Cardinality({j \in 1..Len(q) :
                      \/ SortsBefore(q[j], q[k])
                      \/ (~SortsBefore(q[k], q[j]) /\ j < k)}) = i - 1]])
          : q \in {list} } : TRUE

\* lines 164-168
Dirlist(L) == SortReverse(Sorted({x \in L : EndsWith(x.name, M4A)}))

\* line 175: (_, date_enc) = entry.name[:-4].split("-") raises ValueError
\* unless the split yields exactly two parts
Unpacks(name) == Len(Split(DropLast4(name), "-")) = 2

DateEnc(name) == Split(DropLast4(name), "-")[2]

TitlePrefix == <<"Z", "I", "B", " ", "2", " ", "-", " ">>

\* an item whose enclosure URL is built for a fixed host
MakeItem_FixedHost(entry, rq) ==
    [ title  |-> TitlePrefix \o ReplaceChar(DateEnc(entry.name), "_", " "),
      url    |-> <<"http", "://", "localhost:8000", "/static/">> \o entry.name,
      length |-> entry.size ]

\* lines 176-183
MakeItem(entry, rq) ==
    [ title  |-> TitlePrefix \o ReplaceChar(DateEnc(entry.name), "_", " "),
      url    |-> <<rq.scheme, "://", rq.netloc, "/static/">> \o entry.name,
      length |-> entry.size ]

\* lines 169-184
Items(dirlist, rq) ==
    [i \in 1..Len(dirlist) |-> MakeItem(dirlist[i], rq)]

\* day_diff.days > NEWEST_EPISODE_MAX_AGE, line 195
TooOld(day_diff) == day_diff > NEWEST_EPISODE_MAX_AGE

\* lines 189-200: what the block logs
RangeCheck(dirlist, today) ==
    IF dirlist = <<>> THEN "range_check_exception"          \* IndexError
    ELSE LET f == Split(RemoveAll(dirlist[1].name, M4A), "-")
         IN  IF Len(f) < 2 THEN "range_check_exception"     \* IndexError
             ELSE LET date_newest == StrpTime(f[2])
                  IN  IF ~date_newest.ok THEN "range_check_exception"
                      ELSE IF TooOld(ToOrdinal(today) - ToOrdinal(date_newest))
                           THEN "newest_too_old"
                           ELSE "none"

\* a handler that adds the scanned items to those the channel holds
SetItems_Extending(rss, items) == [set |-> TRUE, items |-> rss.items \o items]

\* lines 185-186: rss = ZIB2_FEED; rss.channel.items = items
SetItems(rss, items) == [set |-> TRUE, items |-> items]

\* lines 163-202: a feed request with the URL components rq, on the day
\* today.  The handler has no await: it runs without interleaving.
podcast ==
    \E dirlist \in {Dirlist(lib)} : \E rq \in Requests, today \in Todays :
        /\ request_url' = rq
        /\ IF \E i \in 1..Len(dirlist) : ~Unpacks(dirlist[i].name)
           THEN \* the ValueError leaves the handler: 500, nothing assigned
                /\ response' = [status |-> 500, items |-> <<>>]
                /\ UNCHANGED <<ZIB2_FEED, alarm, date_today>>
           ELSE /\ ZIB2_FEED' = SetItems(ZIB2_FEED, Items(dirlist, rq))
                /\ alarm' = RangeCheck(dirlist, today)
                /\ date_today' = IF alarm' = "range_check_exception"
                                 THEN date_today ELSE today
                /\ response' = [status |-> 200, items |-> ZIB2_FEED'.items]
        /\ UNCHANGED <<lib, syncVars, logVars>>

-----------------------------------------------------------------------------
(* The library *)

\* line 114 and 117: "%(id)s-{date_encoded}.%(ext)s" % {"id": id, "ext": "m4a"}
\* a template that writes the date with dashes
FileName_DashedDate(id, date_encoded) ==
    id \o <<"-">> \o ReplaceChar(date_encoded, ".", "-") \o M4A

FileName(id, date_encoded) == id \o <<"-">> \o date_encoded \o M4A

GarbageTxt == <<"g", "a", "r", "b", "a", "g", "e", ".", "t", "x", "t">>
NoDashM4a  == <<"a", ".", "m", "4", "a">>
TwoDashM4a == <<"9", "-", "1", "-", "2", ".", "m", "4", "a">>

\* what app/static may hold when the process starts
WellFormedFiles ==
    { [name |-> FileName(id, d), size |-> MediaSize(id)] : id \in Ids, d \in LibraryDates }

StrayFiles ==
    { [name |-> n, size |-> 1] : n \in {GarbageTxt, NoDashM4a, TwoDashM4a} }

LibraryFiles == WellFormedFiles \cup StrayFiles

NoResponse == [status |-> 0, items |-> <<>>]

-----------------------------------------------------------------------------
(* Upstream answers *)

\* the answer to requests.get(program_url), line 132: the request raises
\* (ok = FALSE), or the ids of the episode URLs the regex of line 131
\* matches in the page, in page order
Pages ==
    { [ok |-> FALSE, ids |-> <<>>] } \cup
    UNION { { [ok |-> TRUE, ids |-> q] : q \in [1..n -> Ids] } : n \in 0..MaxListing }

\* the answer to requests.get(url), line 100: the request raises (ok = FALSE),
\* or a page on which uncomplete_regex matches or not (uncomplete) and
\* date_regex matches or not (dated), capturing date
ProbeFail == [ok |-> FALSE, uncomplete |-> FALSE, dated |-> FALSE, date |-> <<>>]

ProbeResponses ==
    { ProbeFail } \cup
    { [ok |-> TRUE, uncomplete |-> u, dated |-> FALSE, date |-> <<>>] : u \in BOOLEAN } \cup
    { [ok |-> TRUE, uncomplete |-> FALSE, dated |-> TRUE, date |-> d] : d \in ProbeDates } \cup
    { [ok |-> TRUE, uncomplete |-> TRUE, dated |-> TRUE, date |-> D_01_01_2024] }

\* how ydl.download([url]) ends, line 126: it writes the file or raises
DownloadResults == {"ok", "raised"}

NoAnswers == [i \in {} |-> [probe |-> ProbeFail, acq |-> "none"]]

-----------------------------------------------------------------------------
(* download_all() *)

\* a list of every match, in place of the dict
DictKeys_EveryMatch(q) == q

\* the keys of {match.group("id"): match.group() for match in matches}, line
\* 134: each id once, in the order of its first match
RECURSIVE DictKeys(_)
DictKeys(q) ==
    IF q = <<>> THEN <<>>
    ELSE LET init == DictKeys(SubSeq(q, 1, Len(q) - 1))
             last == q[Len(q)]
         IN  IF \E i \in 1..Len(init) : init[i] = last THEN init
             ELSE Append(init, last)

\* a get_episode_urls() that catches the failed fetch and goes on with a
\* built-in candidate
get_episode_urls_fallback(p) ==
    IF p.ok THEN [raised |-> FALSE, urls |-> DictKeys(p.ids)]
    ELSE [raised |-> FALSE, urls |-> << <<"9">> >>]

\* lines 129-136: get_episode_urls() raises what requests.get raises, or
\* returns the dict
get_episode_urls(p) ==
    IF p.ok THEN [raised |-> FALSE, urls |-> DictKeys(p.ids)]
    ELSE [raised |-> TRUE, urls |-> <<>>]

\* line 113
DateEncoded(r) == ReplaceChar(r.date, " ", "_")

\* lines 116-118: os.path.exists(os.path.join("app", "static", name))
Exists(L, name) == \E e \in L : e.name = name

\* a loop body without the check of lines 102-105
Gate_NoMarkerCheck(L, id, r) ==
    IF ~r.dated THEN "skip_no_date"
    ELSE IF Exists(L, FileName(id, DateEncoded(r))) THEN "skip_existing"
    ELSE "download"

\* a loop body that gives up an episode whose download has raised
Gate_FailureIsFinal(L, id, r) ==
    IF r.uncomplete THEN "skip_uncomplete"
    ELSE IF ~r.dated THEN "skip_no_date"
    ELSE IF id \in failed \/ Exists(L, FileName(id, DateEncoded(r))) THEN "skip_existing"
    ELSE "download"

\* lines 102-120: what the loop body decides for a fetched detail page
Gate(L, id, r) ==
    IF r.uncomplete THEN "skip_uncomplete"
    ELSE IF ~r.dated THEN "skip_no_date"
    ELSE IF Exists(L, FileName(id, DateEncoded(r))) THEN "skip_existing"
    ELSE "download"

\* download_all returns
Return ==
    /\ pc' = "idle"
    /\ outcome' = "returned"
    /\ urls' = <<>>
    /\ idx' = 0
    /\ request' = ProbeFail

\* an exception leaves download_all: nothing in it catches one
Raise(what) ==
    /\ pc' = "idle"
    /\ outcome' = what
    /\ urls' = <<>>
    /\ idx' = 0
    /\ request' = ProbeFail

\* continue, and the end of the loop body: the for loop of line 97 takes the
\* next candidate, or download_all returns
Continue ==
    IF idx + 1 > Len(urls)
    THEN Return
    ELSE /\ pc' = "loop"
         /\ idx' = idx + 1
         /\ request' = ProbeFail
         /\ UNCHANGED <<urls, outcome>>

\* lines 95 and 129-136: a cycle starts with the listing fetch
GetEpisodeUrls(p) ==
    /\ pc = "idle"
    /\ fetchFailed' = ~p.ok
    /\ LET got == get_episode_urls(p)
       IN  IF got.raised THEN Raise("listing_raised")
           ELSE IF got.urls = <<>> THEN Return
           ELSE /\ pc' = "loop"
                /\ outcome' = "running"
                /\ urls' = got.urls
                /\ idx' = 1
                /\ request' = ProbeFail
    /\ UNCHANGED <<lib, pending, feedVars>>

\* lines 97-120: the detail page of one candidate is fetched and gated
ProbeAndGate(r) ==
    /\ pc = "loop"
    /\ LET id == urls[idx]
       IN  /\ pending' = IF ~r.ok THEN pending
                         ELSE IF Gate(lib, id, r) = "skip_uncomplete"
                              THEN pending \cup {id}
                              ELSE pending \ {id}
           /\ IF ~r.ok
              THEN Raise("probe_raised")
              ELSE IF Gate(lib, id, r) = "download"
              THEN /\ pc' = "download"
                   /\ request' = r
                   /\ UNCHANGED <<urls, idx, outcome>>
              ELSE Continue
    /\ UNCHANGED <<lib, fetchFailed, feedVars>>

\* a download that puts the new file in the place of the files the library
\* holds under the same id
Store_ReplacingOlder(L, name, size) ==
    { e \in L : Split(e.name, "-")[1] # Split(name, "-")[1] } \cup
    { [name |-> name, size |-> size] }

\* lines 73-77 and 126: the finished download is one more file of
\* app/static, under a name no file has (line 116), "overwrites" being False
Store(L, name, size) == L \cup { [name |-> name, size |-> size] }

\* lines 122-126: YoutubeDL(ytdl_opts).download([url]) with outtmpl set to
\* the file name template of line 114
Download(a) ==
    /\ pc = "download"
    /\ IF a = "ok"
       THEN /\ lib' = Store(lib, FileName(urls[idx], DateEncoded(request)),
                            MediaSize(urls[idx]))
            /\ Continue
       ELSE /\ lib' = lib
            /\ Raise("download_raised")
    /\ UNCHANGED <<fetchFailed, pending, feedVars>>

-----------------------------------------------------------------------------
(* The record of upstream answers, for cycles that meet an unchanged upstream *)

\* with again, the listing answers as it answered the previous cycle
LogListing(p, again) ==
    /\ again => (outcome # "none" /\ p = page)
    /\ replay' = again
    /\ page' = p
    /\ resp' = IF again THEN resp ELSE NoAnswers
    /\ libAtStart' = lib

\* in a replay, a detail page answers as it answered the previous cycle
LogProbe(r) ==
    LET id == urls[idx]
        known == replay /\ id \in DOMAIN resp
    IN  /\ known => r = resp[id].probe
        /\ resp' = (id :> [probe |-> r,
                           acq |-> IF known THEN resp[id].acq ELSE "none"]) @@ resp
        /\ UNCHANGED <<page, replay, libAtStart>>

\* in a replay, the download ends as it ended in the previous cycle
LogDownload(a) ==
    LET id == urls[idx]
    IN  /\ (replay /\ resp[id].acq # "none") => a = resp[id].acq
        /\ resp' = [resp EXCEPT ![id].acq = a]
        /\ UNCHANGED <<page, replay, libAtStart>>

-----------------------------------------------------------------------------
(* Notes on the candidates, for what a later cycle does with them *)

\* the detail page of urls[idx] has been fetched
NoteProbe(r) ==
    LET id == urls[idx]
    IN  /\ probed' = [id |-> id, page |-> r]
        /\ undated' = IF ~r.ok THEN undated
                       ELSE IF Gate(lib, id, r) = "skip_no_date" THEN undated \cup {id}
                       ELSE undated \ {id}
        /\ UNCHANGED failed

\* ydl.download([url]) of urls[idx] has ended
NoteDownload(a) ==
    LET id == urls[idx]
    IN  /\ failed' = IF a = "raised" THEN failed \cup {id} ELSE failed \ {id}
        /\ UNCHANGED <<probed, undated>>

-----------------------------------------------------------------------------
(* Specifications *)

IdleInit ==
    /\ pc = "idle"
    /\ urls = <<>>
    /\ idx = 0
    /\ request = ProbeFail
    /\ outcome = "none"
    /\ ZIB2_FEED = [set |-> FALSE, items |-> <<>>]
    /\ response = NoResponse
    /\ alarm = "none"
    /\ date_today = [y |-> 1, m |-> 1, d |-> 1]
    /\ request_url = [scheme |-> "", netloc |-> ""]
    /\ fetchFailed = FALSE
    /\ pending = {}
    /\ page = [ok |-> TRUE, ids |-> <<>>]
    /\ resp = NoAnswers
    /\ replay = FALSE
    /\ libAtStart = {}
    /\ probed = [id |-> <<>>, page |-> ProbeFail]
    /\ failed = {}
    /\ undated = {}
    /\ stalled = FALSE

\* the sync cycles and the feed requests of a process started on an empty library
Init == lib = {} /\ IdleInit

Next ==
    \/ \E p \in Pages : GetEpisodeUrls(p) /\ UNCHANGED logVars
    \/ \E r \in ProbeResponses : ProbeAndGate(r) /\ UNCHANGED logVars
    \/ \E a \in DownloadResults : Download(a) /\ UNCHANGED logVars
    \/ podcast

Spec == Init /\ [][Next]_vars

\* feed requests over any library found in app/static
FeedInit == lib \in SUBSET LibraryFiles /\ IdleInit

FeedNext == podcast

FeedSpec == FeedInit /\ [][FeedNext]_vars

\* sync cycles, some of which meet the upstream of the cycle before
RerunNext ==
    \/ \E p \in Pages, again \in BOOLEAN :
          GetEpisodeUrls(p) /\ LogListing(p, again) /\ UNCHANGED <<noteVars, stalled>>
    \/ \E r \in ProbeResponses : ProbeAndGate(r) /\ LogProbe(r) /\ UNCHANGED <<noteVars, stalled>>
    \/ \E a \in DownloadResults : Download(a) /\ LogDownload(a) /\ UNCHANGED <<noteVars, stalled>>

RerunSpec == Init /\ [][RerunNext]_vars

\* sync cycles, with notes on what became of each candidate
RetryNext ==
    \/ \E p \in Pages : GetEpisodeUrls(p) /\ UNCHANGED logVars
    \/ \E r \in ProbeResponses : ProbeAndGate(r) /\ NoteProbe(r) /\ UNCHANGED <<replayVars, stalled>>
    \/ \E a \in DownloadResults : Download(a) /\ NoteDownload(a) /\ UNCHANGED <<replayVars, stalled>>

RetrySpec == Init /\ [][RetryNext]_vars

\* lines 100 and 132: requests.get is called with no timeout, so it returns
\* or raises only when the server answers or the connection breaks.  Here
\* download_all has called it (at "fetch" for the listing, at "loop" for a
\* detail page) and the server stays silent.
Unanswered ==
    /\ ~stalled
    /\ pc \in {"idle", "loop"}
    /\ stalled' = TRUE
    /\ pc' = IF pc = "idle" THEN "fetch" ELSE pc
    /\ UNCHANGED <<lib, urls, idx, request, outcome, fetchFailed, pending,
                   feedVars, replayVars, noteVars>>

\* sync cycles whose upstream may stop answering
StallNext ==
    \/ ~stalled /\ \E p \in Pages : GetEpisodeUrls(p) /\ UNCHANGED logVars
    \/ ~stalled /\ \E r \in ProbeResponses : ProbeAndGate(r) /\ UNCHANGED logVars
    \/ ~stalled /\ \E a \in DownloadResults : Download(a) /\ UNCHANGED logVars
    \/ Unanswered

StallSpec == Init /\ [][StallNext]_vars

\* ids and dates the two regexes also capture: (?P<id>\d+) takes any run of
\* digits, (?P<date>[\d\.]+) any run of digits and dots
TripIds == { <<"0">> }

TripDates == { <<".">>, <<"7">>, D_01_01_2024 }

TripPages == { [ok |-> TRUE, ids |-> <<id>>] : id \in TripIds }

TripProbes ==
    { [ok |-> TRUE, uncomplete |-> FALSE, dated |-> TRUE, date |-> d] : d \in TripDates }

\* sync cycles over such captures, and feed requests
TripNext ==
    \/ \E p \in TripPages : GetEpisodeUrls(p) /\ UNCHANGED logVars
    \/ \E r \in TripProbes : ProbeAndGate(r) /\ UNCHANGED logVars
    \/ \E a \in DownloadResults : Download(a) /\ UNCHANGED logVars
    \/ podcast

TripSpec == Init /\ [][TripNext]_vars

-----------------------------------------------------------------------------
(* What the claims speak of *)

\* the episode id a library file name starts with
EpisodeOf(name) == Split(DropLast4(name), "-")[1]

\* the file a feed item is an enclosure of: what follows scheme://host/static/
ItemFile(item) == SubSeq(item.url, 5, Len(item.url))

\* the day a feed item's title shows, as an ordinal
ItemDay(item) == ToOrdinal(StrpTime(SubSeq(item.title, Len(TitlePrefix) + 1, Len(item.title))))

\* the day in a well-formed file name, as an ordinal
FileDay(name) == ToOrdinal(StrpTime(DateEnc(name)))

AudioNames(L) == { e.name : e \in { x \in L : EndsWith(x.name, M4A) } }

ItemFiles(items) == { ItemFile(items[i]) : i \in 1..Len(items) }

\* the library holds stored episodes named <id>-<date>.m4a and nothing else
WellFormedLibrary == lib \subseteq WellFormedFiles

\* download_all is about to call YoutubeDL.download for episode id
Acquiring(id) == pc = "download" /\ urls[idx] = id

\* a step in which download_all ends, by return or by exception
CycleEnds == pc # "idle" /\ pc' = "idle"

-----------------------------------------------------------------------------
(* C1: exactly-once across cycles.  Once a cycle has created a file for     *)
(* episode E (every library file of this specification was created by a     *)
(* cycle, and a cycle handles an id once, so a file of E met at download    *)
(* time is an earlier cycle's), no later cycle calls the downloader for E.  *)
C1_ExactlyOnce ==
    \A id \in Ids :
        Acquiring(id) => ~\E e \in lib : EpisodeOf(e.name) = id

(* C3: completeness gating.  The downloader is never called for a candidate *)
(* whose detail page, fetched in this cycle, carries the incomplete marker. *)
C3_IncompleteNeverDownloaded ==
    pc = "download" => (request.ok /\ ~request.uncomplete)

\* the first candidate of a cycle was skipped as incomplete and the loop went on
C3_Witness ==
    /\ pc \in {"loop", "download"}
    /\ idx = 2
    /\ urls[1] \in pending

(* C9: per-candidate failure isolation.  A cycle ends only when every       *)
(* candidate of its listing has been handled: a failed probe or download of *)
(* one candidate leaves no sibling unprobed.                                *)
C9_FailureIsolated ==
    [][CycleEnds => idx = Len(urls)]_vars

(* C10: a failed listing fetch aborts the cycle cleanly.  The cycle whose   *)
(* listing fetch failed probes and downloads nothing and leaves the library *)
(* as it was; the next cycle starts the pipeline at its first candidate;    *)
(* and a feed answered meanwhile lists the files of the library.            *)
C10_ListingFailureAborts ==
    [][ /\ fetchFailed' =>
              (pc' = "idle" /\ outcome' = "listing_raised" /\ lib' = lib)
        /\ (fetchFailed /\ pc' # "idle") =>
              (pc' = "loop" /\ idx' = 1 /\ urls' # <<>> /\ ~fetchFailed')
        /\ (fetchFailed /\ response' # response) =>
              (response'.status = 200 /\ ItemFiles(response'.items) = AudioNames(lib))
      ]_vars

\* after a cycle that stored an episode, a listing fetch has failed and a
\* feed shows the stored episode
C10_Witness ==
    /\ fetchFailed
    /\ lib # {}
    /\ response.status = 200
    /\ ItemFiles(response.items) = AudioNames(lib)


(* C4: incomplete is never permanent.  A candidate skipped as incomplete    *)
(* is probed again by the next cycle whose listing contains it: no cycle    *)
(* ends leaving a listed candidate, whose last probe said incomplete,       *)
(* unprobed.                                                                *)
C4_IncompleteReprobed ==
    [][CycleEnds => \A j \in (idx + 1)..Len(urls) : urls[j] \notin pending]_vars

(* C5: feed ordering.  Over a library of well-formed stored episodes the    *)
(* items of the returned feed are in descending order of publish date.      *)
C5_DescendingByDate ==
    (response.status = 200 /\ WellFormedLibrary) =>
        \A i, j \in 1..Len(response.items) :
            i < j => ItemDay(response.items[i]) >= ItemDay(response.items[j])

\* the most recent publish date among the stored episodes, as an ordinal
NewestDay(L) ==
    CHOOSE m \in { FileDay(e.name) : e \in L } : \A e \in L : FileDay(e.name) <= m

(* C6: staleness threshold.  Over a non-empty library of well-formed stored *)
(* episodes a feed request raises the staleness alarm exactly when the most *)
(* recent publish date of the library is more than 3 days before today.     *)
C6_StalenessThreshold ==
    (response.status = 200 /\ WellFormedLibrary /\ lib # {}) =>
        ( alarm = "newest_too_old" <=>
          ToOrdinal(date_today) - NewestDay(lib) > NEWEST_EPISODE_MAX_AGE )

(* C7: malformed entries are skipped, never fatal.  Whatever the directory  *)
(* holds, an answered feed request has completed and its feed has an item   *)
(* for every well-formed entry and for no other entry.                      *)
C7_MalformedSkipped ==
    response # NoResponse =>
        /\ response.status = 200
        /\ ItemFiles(response.items) = { e.name : e \in lib \cap WellFormedFiles }

(* C8: empty library.  With no stored episode a feed request answers a feed *)
(* of zero items, and the staleness block neither reads the first entry nor *)
(* reports anything.                                                        *)
C8_EmptyLibraryQuiet ==
    (AudioNames(lib) = {} /\ response # NoResponse) =>
        /\ response.status = 200
        /\ response.items = <<>>
        /\ alarm = "none"

(* C2: idempotence of the sync cycle.  When a cycle has met the listing,    *)
(* the detail pages and the download results of the cycle before it, the    *)
(* library is what it was when the cycle started, and the feed podcast()    *)
(* builds of that library, whatever the request URL, has no two items for   *)
(* the same file or for the same episode.                                   *)
C2_Idempotent ==
    (pc = "idle" /\ replay) =>
        /\ lib = libAtStart
        /\ \A rq \in Requests : \E items \in {Items(Dirlist(lib), rq)} :
              \A i, j \in 1..Len(items) :
                  i # j =>
                      /\ ItemFile(items[i]) # ItemFile(items[j])
                      /\ EpisodeOf(ItemFile(items[i])) # EpisodeOf(ItemFile(items[j]))

C12_OneFilePerEpisode ==
    \A e1, e2 \in lib : EpisodeOf(e1.name) = EpisodeOf(e2.name) => e1 = e2

(* C14: a cycle terminates under an unresponsive upstream.  A cycle that    *)
(* has not returned can always take a step: a request that is never         *)
(* answered is given up, so download_all is never left waiting for good.    *)
C14_NeverLeftWaiting ==
    pc = "idle" \/ ENABLED StallNext

\* the feed item the contract asks for the stored episode <id>-<d>.m4a of
\* n bytes, requested at the URL u
ContractItem(id, d, n, u) ==
    [ title  |-> <<"Z", "I", "B", " ", "2", " ", "-", " ">> \o d,
      url    |-> <<u.scheme, "://", u.netloc, "/static/">> \o id \o <<"-">> \o d
                     \o <<".", "m", "4", "a">>,
      length |-> n ]

(* C15: feed content matches the library.  Over a library of well-formed    *)
(* stored episodes the returned feed has as many items as the library has   *)
(* files, and for each file exactly one item, whose title shows the file's  *)
(* date, whose URL is scheme://host/static/<name> of this request and whose *)
(* length is the file's size.                                               *)
C15_FeedMatchesLibrary ==
    (response.status = 200 /\ WellFormedLibrary) =>
        /\ Len(response.items) = Cardinality(lib)
        /\ \A id \in Ids, d \in LibraryDates :
              \A e \in { x \in lib : x.name = id \o <<"-">> \o d \o <<".", "m", "4", "a">> } :
                  Cardinality({ i \in 1..Len(response.items) :
                      response.items[i] = ContractItem(id, d, e.size, request_url) }) = 1

\* a feed of two stored episodes has been answered to an https request
C15_Witness ==
    /\ response.status = 200
    /\ WellFormedLibrary
    /\ Cardinality(lib) >= 2
    /\ Len(response.items) >= 2
    /\ request_url.scheme = "https"

(* C16: the library is append-only.  No step of a sync cycle or of a feed   *)
(* request removes or changes a file: every file is still there with its    *)
(* name and size, a new file takes a name no file had, and a feed request   *)
(* leaves the library as it is.                                             *)
C16_AppendOnly ==
    [][ /\ \A e \in lib : e \in lib'
        /\ \A e \in lib' \ lib : ~\E x \in lib : x.name = e.name
        /\ feedVars' # feedVars => lib' = lib
      ]_vars

\* cycles have stored a second file of an episode next to its first, and a
\* feed of both has been answered
C16_Witness ==
    /\ \E e1, e2 \in lib : e1 # e2 /\ EpisodeOf(e1.name) = EpisodeOf(e2.name)
    /\ response.status = 200
    /\ Len(response.items) = Cardinality(lib)

(* C17: no feed state is carried across requests.  The items of every       *)
(* response are one per audio file the directory holds at that request,     *)
(* built for that request's URL, and they are what the shared ZIB2_FEED     *)
(* then holds: no item of an earlier request is left in it.                 *)
C17_FeedRebuilt ==
    [][ (feedVars' # feedVars /\ response'.status = 200) =>
            /\ ItemFiles(response'.items) = AudioNames(lib')
            /\ Len(response'.items) = Cardinality(AudioNames(lib'))
            /\ \A i \in 1..Len(response'.items) :
                  SubSeq(response'.items[i].url, 1, 4) =
                      <<request_url'.scheme, "://", request_url'.netloc, "/static/">>
            /\ ZIB2_FEED'.items = response'.items
      ]_vars

\* a feed was answered, the library has grown since, and the channel object
\* still holds the items of that answer
C17_Witness ==
    /\ response.status = 200
    /\ Len(response.items) >= 1
    /\ ZIB2_FEED.items = response.items
    /\ Cardinality(lib) > Len(response.items)

(* C18: de-duplication within a cycle.  However often the listing page      *)
(* names an id, the candidates of the cycle hold it once, and the loop      *)
(* takes each candidate once: one fetch of its detail page, then at most    *)
(* one download, then the next candidate.                                   *)
C18_OncePerCycle ==
    [][ /\ \A i, j \in 1..Len(urls') : urls'[i] = urls'[j] => i = j
        /\ (pc # "idle" /\ pc' # "idle") =>
              /\ urls' = urls
              /\ \/ pc = "loop" /\ pc' = "download" /\ idx' = idx
                 \/ pc' = "loop" /\ idx' = idx + 1
      ]_vars

\* the listing page named one id twice and the cycle is downloading it
C18_Witness ==
    /\ page.ok
    /\ Len(page.ids) = 2
    /\ page.ids[1] = page.ids[2]
    /\ pc = "download"
    /\ urls = <<page.ids[1]>>

(* C19: a missing publish date is a skip, not an error.  A candidate whose  *)
(* detail page is complete and shows no date is not downloaded, the loop    *)
(* goes on to the next candidate, and the candidate is probed again in the  *)
(* next cycle: no cycle ends leaving a listed candidate, last skipped for   *)
(* its missing date, unprobed.                                              *)
C19_NoDateIsSkip ==
    [][ /\ ( /\ pc = "loop"
             /\ probed'.page.ok /\ ~probed'.page.uncomplete /\ ~probed'.page.dated )
           => /\ pc' # "download"
              /\ lib' = lib
              /\ outcome' \in {"running", "returned"}
              /\ idx < Len(urls) => (pc' = "loop" /\ idx' = idx + 1)
        /\ CycleEnds => \A j \in (idx + 1)..Len(urls) : urls[j] \notin undated
      ]_vars

(* C20: file names make the round trip from sync to feed.  The name under   *)
(* which a cycle stores an episode is one podcast() takes (it ends in .m4a) *)
(* and splits back into the id of the listing and the date of the detail    *)
(* page; so no feed request over a library made by sync cycles fails, and   *)
(* every item's title shows the date that was probed for its file.          *)
C20_NameRoundTrip ==
    [][ /\ \A e \in lib' \ lib :
              /\ SubSeq(e.name, Len(e.name) - 3, Len(e.name)) = <<".", "m", "4", "a">>
              /\ Split(SubSeq(e.name, 1, Len(e.name) - 4), "-") = <<urls[idx], request.date>>
        /\ response'.status # 500
        /\ \A i \in 1..Len(response'.items) :
              response'.items[i].title =
                  <<"Z", "I", "B", " ", "2", " ", "-", " ">> \o
                      Split(SubSeq(ItemFile(response'.items[i]), 1,
                                   Len(ItemFile(response'.items[i])) - 4), "-")[2]
      ]_vars

\* files of one id under a bare dot, a single digit and a full date have
\* been stored, and a feed lists the three
C20_Witness ==
    /\ Cardinality(lib) = 3
    /\ response.status = 200
    /\ Len(response.items) = 3

=============================================================================
